---- MODULE Spec2Model ----
(***************************************************************************)
(* Red-Read: the RSVP playback controller (src/engine/playback.js) and the *)
(* tokenizer (src/engine/tokenizer.js): tokenize and its pivot, base       *)
(* duration and duration scaling functions.                                *)
(*                                                                         *)
(* The controller is modelled as a record of its fields; every method is   *)
(* an operator from the record before the call to the record after it, so  *)
(* that a method calling another (load -> stop -> pause, seek -> pause,    *)
(* play) is the composition the source writes.  An action of the state     *)
(* machine is one call arriving from the host: a public method, a frame    *)
(* callback, or a page lifecycle event.                                    *)
(*                                                                         *)
(* A token is represented by its baseDurationMs, the only field of a token *)
(* the controller reads.  Times are integers (milliseconds).               *)
(*                                                                         *)
(* A function of the tokenizer is studied in a specification of its own:   *)
(* `input` holds its argument, and one action applies it and stores what   *)
(* it returns in `output`, while the controller stays as constructed.      *)
(***************************************************************************)
EXTENDS Integers, Sequences, FiniteSets, TLC

\* ---------------------------------------------------------------- bounds
MaxLen == 3         \* longest token sequence handed to load
MaxTime == 3        \* latest frame timestamp of a run, counted from its first frame
MaxDelta == 2       \* largest gap between two frame timestamps
MaxFrames == 2      \* most frame callbacks pending with the host at once
MaxRunLen == 4      \* longest token sequence of an undisturbed run
MaxRunTime == 13    \* latest frame timestamp of an undisturbed run
MaxWordLen == 4     \* longest word over the full sample of characters
MaxLongWordLen == 14    \* longest word over a letter and a full stop
MaxPercentLen == 100    \* longest token sequence sought by percentage
PercentMargin == 20     \* percentages run this far below 0 and above 100
MaxTextLen == 6         \* longest text tokenized

\* ------------------------------------------------------- program constants
DEFAULT_WPM == 300
MIN_WPM == 50
MAX_WPM == 2000
BASE_WPM == 200
BASE_MS == 300

\* ----------------------------------------------------------------- inputs
\* Token sequences handed to load: base durations 2, 1, 2, ... (a token is
\* its baseDurationMs), of every length up to MaxLen, the empty one included.
TokenSeqs == {[i \in 1..n |-> IF i % 2 = 1 THEN 2 ELSE 1] : n \in 0..MaxLen}
IndexArgs == {-1, 1, MaxLen + 1}    \* below, inside and beyond the range
StepArgs == {-1, 1}
RewindArgs == {10}
PercentArgs == {-50, 50, 150}
WpmArgs == {200, 5000}
Modes == {"reading", "skim"}
\* An undisturbed run (load, setWPM, play, then frames only): every sequence
\* of base durations 1..3 up to MaxRunLen tokens, at these rates.
RunDurations == {1, 2, 3}
RunTokenSeqs == UNION {[1..n -> RunDurations] : n \in 1..MaxRunLen}
RunRates == {200, 400}

\* The rate specification calls setWPM and adjustWPM with arguments below, at
\* and above both limits, zero, negative and very large.
RateArgs == {-1000, 0, 49, 50, 300, 2000, 2001, 1000000}
DeltaArgs == {-1000000, -50, 0, 75, 1000000}

\* The percentage specification seeks every whole percentage from below 0 to
\* above 100 in sequences of one token, a few, and many.
PercentLens == {1, MaxLen, MaxPercentLen \div 2, MaxPercentLen}
PercentTokenSeqs == {[i \in 1..n |-> IF i % 2 = 1 THEN 2 ELSE 1] : n \in PercentLens}
Percents == (0 - PercentMargin)..(100 + PercentMargin)

\* The scaling specification scales these base durations at every pair of
\* these rates: the limits and their neighbours, and every 25th rate between
\* the limits.
ScaleBases == {1, 2, 300, 600, 1170}
ScaleRates ==
    {MIN_WPM + 1, MAX_WPM - 1}
        \cup {r \in MIN_WPM..MAX_WPM : (r - MIN_WPM) % 25 = 0}

\* Every combination of token flags.
PunctuationClasses == {"none", "minor", "major", "terminal"}
AllFlags ==
    [isParagraphStart : BOOLEAN, isParagraphEnd : BOOLEAN,
     punctuation : PunctuationClasses, isLongWord : BOOLEAN,
     isNumeric : BOOLEAN, isAbbreviation : BOOLEAN]

\* Words are sequences of characters.  The words tokenized are all words of up
\* to MaxWordLen characters over WordChars (a letter, a digit, a terminal and
\* a minor punctuation mark) and all words of up to MaxLongWordLen characters
\* over LongWordChars.
WordChars == {"a", "7", ".", "-"}
LongWordChars == {"a", "."}
Words ==
    UNION ({[1..n -> WordChars] : n \in 1..MaxWordLen}
           \cup {[1..n -> LongWordChars] : n \in 1..MaxLongWordLen})

VARIABLES
    tokens,                 \* this.tokens: sequence of base durations
    currentIndex,           \* this.currentIndex (0-based)
    isPlaying,              \* this.isPlaying
    wpm,                    \* this.wpm
    mode,                   \* this.mode
    rafId,                  \* this.rafId: "null", "pending" (its callback is
                            \* still queued) or "fired" (its callback has run)
    lastTimestamp,          \* this.lastTimestamp: <<>> for null, else <<t>>
    accumulatedTime,        \* this.accumulatedTime
    currentTokenDuration,   \* this.currentTokenDuration
    wasPlayingBeforeHidden, \* this.wasPlayingBeforeHidden
    observer,               \* the callbacks given to the constructor: the one
                            \* that calls pause() ("onTick", "onProgress") or "none"
    frames,                 \* host: number of frame callbacks queued
    pace,                   \* host: frames arrive every `pace` ms; 0 = irregularly
    hidden,                 \* host: document.hidden
    frozen,                 \* host: the page is frozen (between freeze and resume)
    listeners,              \* host: document events the controller listens to
    input,                  \* argument of the tokenizer function under study
    output,                 \* results of the tokenizer functions applied so far
    events,                 \* callbacks invoked by the last call, in order
    shown,                  \* application: what onTick and onStateChange were
                            \* last called with (<<>> if never called)
    lastOp                  \* the last call: its name, argument, isPlaying before

vars == <<tokens, currentIndex, isPlaying, wpm, mode, rafId, lastTimestamp,
          accumulatedTime, currentTokenDuration, wasPlayingBeforeHidden,
          observer, frames, pace, hidden, frozen, listeners, input, output, events,
          shown, lastOp>>

\* The variables of the controller and the host.
schedulerVars ==
    <<tokens, currentIndex, isPlaying, wpm, mode, rafId, lastTimestamp,
      accumulatedTime, currentTokenDuration, wasPlayingBeforeHidden,
      observer, frames, pace, hidden, frozen, listeners, events, shown, lastOp>>

NoTimestamp == <<>>

\* The application before any callback: no word rendered, no state received.
NothingShown == [index |-> <<>>, state |-> <<>>]

\* The document events the constructor subscribes to, on a host that has the
\* page lifecycle events ('onfreeze' in document).
LifecycleEvents == {"visibilitychange", "freeze", "resume"}

\* The controller (and the host's frame queue, which its methods act on) as
\* one record, with an empty callback log: the state a call starts from.
Self ==
    [tokens |-> tokens, currentIndex |-> currentIndex, isPlaying |-> isPlaying,
     wpm |-> wpm, mode |-> mode, rafId |-> rafId, lastTimestamp |-> lastTimestamp,
     accumulatedTime |-> accumulatedTime,
     currentTokenDuration |-> currentTokenDuration,
     wasPlayingBeforeHidden |-> wasPlayingBeforeHidden,
     observer |-> observer, frames |-> frames, listeners |-> listeners,
     events |-> <<>>, shown |-> shown]

\* The state a call leaves behind.
Commit(s) ==
    /\ tokens' = s.tokens
    /\ currentIndex' = s.currentIndex
    /\ isPlaying' = s.isPlaying
    /\ wpm' = s.wpm
    /\ mode' = s.mode
    /\ rafId' = s.rafId
    /\ lastTimestamp' = s.lastTimestamp
    /\ accumulatedTime' = s.accumulatedTime
    /\ currentTokenDuration' = s.currentTokenDuration
    /\ wasPlayingBeforeHidden' = s.wasPlayingBeforeHidden
    /\ observer' = s.observer
    /\ frames' = s.frames
    /\ listeners' = s.listeners
    /\ events' = s.events
    /\ shown' = s.shown

Called(op, arg) == lastOp' = [op |-> op, arg |-> arg, wasPlaying |-> isPlaying]

\* ------------------------------------------------------------ arithmetic
Max(a, b) == IF a >= b THEN a ELSE b
Min(a, b) == IF a <= b THEN a ELSE b

\* Math.round of the non-negative rational n/d: floor(n/d + 1/2).
Round(n, d) == (2 * n + d) \div (2 * d)

\* A clamp that forgets the upper end of the range.
ClampIndexUnbounded(x, length) == Max(0, x)

\* Math.max(0, Math.min(x, length - 1))
ClampIndex(x, length) == Max(0, Min(x, length - 1))

\* tokenizer.js getDisplayDuration: Math.round(baseDurationMs * (200 / wpm))
\* A scaling proportional to the rate instead of inverse to it.
getDisplayDurationProportional(token, w) == Round(token * w, BASE_WPM)

getDisplayDuration(token, w) == Round(token * BASE_WPM, w)

\* this.tokens[i] is a token (not undefined)
HasToken(s, i) == i \in 0..(Len(s.tokens) - 1)
TokenAt(s, i) == s.tokens[i + 1]

\* ---------------------------------------------------------------- host
\* requestAnimationFrame: one more callback queued; the handle returned names it.
requestAnimationFrame(s) == [s EXCEPT !.frames = @ + 1, !.rafId = "pending"]

\* cancelAnimationFrame(this.rafId): removes the callback if it is still queued.
cancelAnimationFrame(s) ==
    IF s.rafId = "pending" THEN [s EXCEPT !.frames = @ - 1] ELSE s

\* ------------------------------------------------------------- callbacks
\* A percentage is the fraction num / den; a notification other than
\* onProgress carries none.
NoPercent == [num |-> 0, den |-> 0]

\* A percentage counted from the position after the current one.
percentOfNext(s) ==
    IF Len(s.tokens) > 0
    THEN [num |-> (s.currentIndex + 1) * 100, den |-> Len(s.tokens)]
    ELSE [num |-> 0, den |-> 1]

\* emitProgress: (currentIndex / tokens.length) * 100, or 0 without tokens.
percentOf(s) ==
    IF Len(s.tokens) > 0
    THEN [num |-> s.currentIndex * 100, den |-> Len(s.tokens)]
    ELSE [num |-> 0, den |-> 1]

Event(type, s) ==
    [type |-> type, currentIndex |-> s.currentIndex, isPlaying |-> s.isPlaying,
     wpm |-> s.wpm, mode |-> s.mode, length |-> Len(s.tokens),
     percent |-> IF type = "progress" THEN percentOf(s) ELSE NoPercent]

\* What the application holds after a callback: onTick renders the token at
\* the position it is given, onStateChange takes over the state it is given.
received(s, type) ==
    CASE type = "tick" -> [s.shown EXCEPT !.index = <<s.currentIndex>>]
      [] type = "state" ->
            [s.shown EXCEPT !.state = <<[isPlaying |-> s.isPlaying,
                                         wpm |-> s.wpm, mode |-> s.mode]>>]
      [] OTHER -> s.shown

Emit(s, type) ==
    [s EXCEPT !.events = Append(@, Event(type, s)), !.shown = received(s, type)]

emitStateChange(s) == Emit(s, "state")
onComplete(s) == Emit(s, "complete")

\* -------------------------------------------------------------- methods
\* A pause that keeps the timestamp of the last frame.
pauseKeepingTimestamp(s) ==
    LET s1 == [s EXCEPT !.isPlaying = FALSE]
        s2 == IF s1.rafId # "null"
              THEN [cancelAnimationFrame(s1) EXCEPT !.rafId = "null"]
              ELSE s1
    IN emitStateChange(s2)

pause(s) ==
    LET s1 == [s EXCEPT !.isPlaying = FALSE]
        s2 == IF s1.rafId # "null"
              THEN [cancelAnimationFrame(s1) EXCEPT !.rafId = "null"]
              ELSE s1
    IN emitStateChange([s2 EXCEPT !.lastTimestamp = NoTimestamp])

\* The callbacks the constructor was given: each is logged, and the one
\* `observer` names calls pause() before it returns.
onTick(s) == IF s.observer = "onTick" THEN pause(s) ELSE s
onProgress(s) == IF s.observer = "onProgress" THEN pause(s) ELSE s

\* An emitTick that does not check that there is a token at the position.
emitTickUnguarded(s) == Emit(s, "tick")

emitTick(s) == IF HasToken(s, s.currentIndex) THEN onTick(Emit(s, "tick")) ELSE s
emitProgress(s) == onProgress(Emit(s, "progress"))

stop(s) ==
    emitStateChange([pause(s) EXCEPT !.currentIndex = 0, !.accumulatedTime = 0])

\* A load that always starts at the first token.
loadIgnoringStart(s, toks, startIndex) ==
    LET s1 == [stop(s) EXCEPT !.tokens = toks]
        s2 == [s1 EXCEPT !.currentIndex = 0]
    IN emitStateChange(emitTick(s2))

load(s, toks, startIndex) ==
    LET s1 == [stop(s) EXCEPT !.tokens = toks]
        s2 == [s1 EXCEPT !.currentIndex = ClampIndex(startIndex, Len(toks))]
    IN emitStateChange(emitTick(s2))

\* A setWPM without the upper limit.
setWPMWithoutUpperLimit(s, w) ==
    LET s1 == [s EXCEPT !.wpm = Max(MIN_WPM, w)]
        s2 == IF s1.isPlaying /\ HasToken(s1, s1.currentIndex)
              THEN [s1 EXCEPT !.currentTokenDuration =
                        getDisplayDuration(TokenAt(s1, s1.currentIndex), s1.wpm)]
              ELSE s1
    IN emitStateChange(s2)

\* A setWPM whose lower clamp is 1 instead of MIN_WPM.
setWPMClampingToPositive(s, w) ==
    LET s1 == [s EXCEPT !.wpm = Max(1, Min(MAX_WPM, w))]
        s2 == IF s1.isPlaying /\ HasToken(s1, s1.currentIndex)
              THEN [s1 EXCEPT !.currentTokenDuration =
                        getDisplayDuration(TokenAt(s1, s1.currentIndex), s1.wpm)]
              ELSE s1
    IN emitStateChange(s2)

\* A setWPM that leaves the duration of the token in flight as it was.
setWPMKeepingDuration(s, w) ==
    emitStateChange([s EXCEPT !.wpm = Max(MIN_WPM, Min(MAX_WPM, w))])

\* A setWPM that restarts the token in flight at the new rate.
setWPMRestartingToken(s, w) ==
    LET s1 == [s EXCEPT !.wpm = Max(MIN_WPM, Min(MAX_WPM, w))]
        s2 == IF s1.isPlaying /\ HasToken(s1, s1.currentIndex)
              THEN [s1 EXCEPT !.currentTokenDuration =
                        getDisplayDuration(TokenAt(s1, s1.currentIndex), s1.wpm),
                              !.accumulatedTime = 0]
              ELSE s1
    IN emitStateChange(s2)

setWPM(s, w) ==
    LET s1 == [s EXCEPT !.wpm = Max(MIN_WPM, Min(MAX_WPM, w))]
        s2 == IF s1.isPlaying /\ HasToken(s1, s1.currentIndex)
              THEN [s1 EXCEPT !.currentTokenDuration =
                        getDisplayDuration(TokenAt(s1, s1.currentIndex), s1.wpm)]
              ELSE s1
    IN emitStateChange(s2)

adjustWPM(s, delta) == setWPM(s, s.wpm + delta)

\* A setMode that does not notify the application.
setModeSilently(s, m) == [s EXCEPT !.mode = m]

setMode(s, m) == emitStateChange([s EXCEPT !.mode = m])

\* A play that never rewinds from the last token.
playWithoutRewind(s) ==
    IF Len(s.tokens) = 0 THEN s
    ELSE
      LET s2 == [s EXCEPT !.isPlaying = TRUE, !.accumulatedTime = 0,
                          !.lastTimestamp = NoTimestamp]
          s3 == [s2 EXCEPT !.currentTokenDuration =
                    getDisplayDuration(TokenAt(s2, s2.currentIndex), s2.wpm)]
      IN emitStateChange(requestAnimationFrame(s3))

play(s) ==
    IF Len(s.tokens) = 0 THEN s
    ELSE
      LET s1 == IF s.currentIndex >= Len(s.tokens) - 1
                THEN [s EXCEPT !.currentIndex = 0] ELSE s
          s2 == [s1 EXCEPT !.isPlaying = TRUE, !.accumulatedTime = 0,
                           !.lastTimestamp = NoTimestamp]
          s3 == [s2 EXCEPT !.currentTokenDuration =
                    getDisplayDuration(TokenAt(s2, s2.currentIndex), s2.wpm)]
      IN emitStateChange(requestAnimationFrame(s3))

toggle(s) == IF s.isPlaying THEN pause(s) ELSE play(s)

step(s, delta) ==
    LET wasPlaying == s.isPlaying
        s1 == IF wasPlaying THEN pause(s) ELSE s
        s2 == [s1 EXCEPT !.currentIndex =
                            ClampIndex(s1.currentIndex + delta, Len(s1.tokens)),
                         !.accumulatedTime = 0]
    IN emitStateChange(emitProgress(emitTick(s2)))

seek(s, index) ==
    LET wasPlaying == s.isPlaying
        s1 == IF wasPlaying THEN pause(s) ELSE s
        s2 == [s1 EXCEPT !.currentIndex = ClampIndex(index, Len(s1.tokens)),
                         !.accumulatedTime = 0]
        s3 == emitProgress(emitTick(s2))
    IN IF wasPlaying THEN play(s3) ELSE emitStateChange(s3)

\* The product (percent / 100) * length is computed in IEEE-754 doubles.  It
\* can differ from the exact product only when percent / 100 is inexact, and
\* Math.floor sees the difference only when the exact product is an integer
\* and the double falls just below it.  These are all the <<percent, length>>
\* where that happens, for lengths up to 101 and percentages -101..201.
FloorsBelow ==
    {<<-56, 25>>, <<-28, 25>>, <<116, 25>>, <<140, 45>>, <<-56, 50>>,
     <<-28, 50>>, <<-14, 50>>, <<58, 50>>, <<114, 50>>, <<116, 50>>,
     <<-68, 75>>, <<-56, 75>>, <<-28, 75>>, <<164, 75>>, <<140, 85>>,
     <<70, 90>>, <<140, 90>>, <<-56, 100>>, <<-55, 100>>, <<-28, 100>>,
     <<-14, 100>>, <<-7, 100>>, <<29, 100>>, <<57, 100>>, <<58, 100>>,
     <<113, 100>>, <<114, 100>>, <<115, 100>>, <<116, 100>>, <<201, 100>>}

\* Math.floor((percent / 100) * length)
floorOfPercent(percent, length) ==
    LET exact == (percent * length) \div 100
    IN IF <<percent, length>> \in FloorsBelow THEN exact - 1 ELSE exact

seekPercent(s, percent) == seek(s, floorOfPercent(percent, Len(s.tokens)))

rewind(s, words) == step(s, -words)

\* An advance that takes the token's base duration, not its duration at the
\* current rate, off the accumulated time.
advanceSubtractingBase(s) ==
    LET s2 == [s EXCEPT !.accumulatedTime = @ - TokenAt(s, s.currentIndex),
                        !.currentIndex = @ + 1]
    IN IF s2.currentIndex >= Len(s2.tokens)
       THEN onComplete(pause([s2 EXCEPT !.currentIndex = Len(s2.tokens) - 1]))
       ELSE
         LET s3 == [s2 EXCEPT !.currentTokenDuration =
                       getDisplayDuration(TokenAt(s2, s2.currentIndex), s2.wpm)]
         IN requestAnimationFrame(emitProgress(emitTick(s3)))

\* An advance that drops the overshoot instead of carrying it forward.
advanceResetting(s) ==
    LET s2 == [s EXCEPT !.accumulatedTime = 0, !.currentIndex = @ + 1]
    IN IF s2.currentIndex >= Len(s2.tokens)
       THEN onComplete(pause([s2 EXCEPT !.currentIndex = Len(s2.tokens) - 1]))
       ELSE
         LET s3 == [s2 EXCEPT !.currentTokenDuration =
                       getDisplayDuration(TokenAt(s2, s2.currentIndex), s2.wpm)]
         IN requestAnimationFrame(emitProgress(emitTick(s3)))

\* An advance that reports completion without pausing.
advanceCompletingWithoutPause(s) ==
    LET s2 == [s EXCEPT !.accumulatedTime = @ - s.currentTokenDuration,
                        !.currentIndex = @ + 1]
    IN IF s2.currentIndex >= Len(s2.tokens)
       THEN onComplete([s2 EXCEPT !.currentIndex = Len(s2.tokens) - 1])
       ELSE
         LET s3 == [s2 EXCEPT !.currentTokenDuration =
                       getDisplayDuration(TokenAt(s2, s2.currentIndex), s2.wpm)]
         IN requestAnimationFrame(emitProgress(emitTick(s3)))

\* An advance that does not request the next frame.
advanceWithoutReschedule(s) ==
    LET s2 == [s EXCEPT !.accumulatedTime = @ - s.currentTokenDuration,
                        !.currentIndex = @ + 1]
    IN IF s2.currentIndex >= Len(s2.tokens)
       THEN onComplete(pause([s2 EXCEPT !.currentIndex = Len(s2.tokens) - 1]))
       ELSE
         LET s3 == [s2 EXCEPT !.currentTokenDuration =
                       getDisplayDuration(TokenAt(s2, s2.currentIndex), s2.wpm)]
         IN emitProgress(emitTick(s3))

\* tick, lines 239-256: the current token's time is up.
advance(s) ==
    LET s2 == [s EXCEPT !.accumulatedTime = @ - s.currentTokenDuration,
                        !.currentIndex = @ + 1]
    IN IF s2.currentIndex >= Len(s2.tokens)
       THEN onComplete(pause([s2 EXCEPT !.currentIndex = Len(s2.tokens) - 1]))
       ELSE
         LET s3 == [s2 EXCEPT !.currentTokenDuration =
                       getDisplayDuration(TokenAt(s2, s2.currentIndex), s2.wpm)]
         IN requestAnimationFrame(emitProgress(emitTick(s3)))

\* An accumulate that measures the first frame from the origin of the host
\* clock instead of taking it as the baseline.
accumulateFromOrigin(s, timestamp) ==
    LET last == IF s.lastTimestamp = NoTimestamp THEN 0 ELSE s.lastTimestamp[1]
        deltaTime == timestamp - last
    IN [s EXCEPT !.lastTimestamp = <<timestamp>>,
                 !.accumulatedTime = @ + deltaTime]

\* tick, lines 227-236: the time since the previous frame is accumulated; the
\* first frame after a (re)start only sets the baseline.
accumulate(s, timestamp) ==
    LET last == IF s.lastTimestamp = NoTimestamp
                THEN timestamp ELSE s.lastTimestamp[1]
        deltaTime == timestamp - last
    IN [s EXCEPT !.lastTimestamp = <<timestamp>>,
                 !.accumulatedTime = @ + deltaTime]

\* A tick that does not check that playback is still running.
tickUnguarded(s, timestamp) ==
    LET s1 == accumulate(s, timestamp)
    IN IF s1.accumulatedTime >= s1.currentTokenDuration
       THEN advance(s1)
       ELSE requestAnimationFrame(s1)

\* A tick that checks that there are tokens, not that playback is running.
tickWhileLoaded(s, timestamp) ==
    IF Len(s.tokens) = 0 THEN s
    ELSE
      LET s1 == accumulate(s, timestamp)
      IN IF s1.accumulatedTime >= s1.currentTokenDuration
         THEN advance(s1)
         ELSE requestAnimationFrame(s1)

tick(s, timestamp) ==
    IF ~s.isPlaying THEN s
    ELSE
      LET s1 == accumulate(s, timestamp)
      IN IF s1.accumulatedTime >= s1.currentTokenDuration
         THEN advance(s1)
         ELSE requestAnimationFrame(s1)

\* A visibility handler that leaves the clock accumulator alone on "visible".
handleVisibilityChangeKeepingClock(s, documentHidden) ==
    IF documentHidden
    THEN LET s1 == [s EXCEPT !.wasPlayingBeforeHidden = s.isPlaying]
         IN IF s1.isPlaying THEN pause(s1) ELSE s1
    ELSE s

\* A visibility handler that resumes playback on "visible".
handleVisibilityChangeResuming(s, documentHidden) ==
    IF documentHidden
    THEN LET s1 == [s EXCEPT !.wasPlayingBeforeHidden = s.isPlaying]
         IN IF s1.isPlaying THEN pause(s1) ELSE s1
    ELSE LET s1 == [s EXCEPT !.lastTimestamp = NoTimestamp, !.accumulatedTime = 0]
         IN IF s1.wasPlayingBeforeHidden THEN play(s1) ELSE s1

handleVisibilityChange(s, documentHidden) ==
    IF documentHidden
    THEN LET s1 == [s EXCEPT !.wasPlayingBeforeHidden = s.isPlaying]
         IN IF s1.isPlaying THEN pause(s1) ELSE s1
    ELSE [s EXCEPT !.lastTimestamp = NoTimestamp, !.accumulatedTime = 0]

handleFreeze(s) == pause([s EXCEPT !.wasPlayingBeforeHidden = s.isPlaying])

handleResume(s) == [s EXCEPT !.lastTimestamp = NoTimestamp, !.accumulatedTime = 0]

getState(s) ==
    [isPlaying |-> s.isPlaying, currentIndex |-> s.currentIndex,
     wpm |-> s.wpm, mode |-> s.mode]

\* The application's snapshot of a document's progress, taken from getState.
saveProgress(s) ==
    LET state == getState(s)
    IN [currentIndex |-> state.currentIndex, wpm |-> state.wpm,
        mode |-> state.mode]

\* The application restores a snapshot on the document's tokens.
openReader(s, toks, progress) ==
    LET s1 == load(s, toks, progress.currentIndex)
        s2 == setWPM(s1, progress.wpm)
    IN setMode(s2, progress.mode)

\* destroy removes the visibilitychange listener; the freeze and resume
\* listeners are anonymous functions, which it does not remove.
destroy(s) ==
    LET s1 == pause(s)
    IN [s1 EXCEPT !.listeners = @ \ {"visibilitychange"}]

\* ---------------------------------------------------------------- state
\* The state the constructor leaves the controller and the host in, given
\* its callbacks.
ConstructedWith(callbacks) ==
    /\ tokens = <<>>
    /\ currentIndex = 0
    /\ isPlaying = FALSE
    /\ wpm = DEFAULT_WPM
    /\ mode = "reading"
    /\ rafId = "null"
    /\ lastTimestamp = NoTimestamp
    /\ accumulatedTime = 0
    /\ currentTokenDuration = 0
    /\ wasPlayingBeforeHidden = FALSE
    /\ observer = callbacks
    /\ frames = 0
    /\ pace = 0
    /\ hidden = FALSE
    /\ frozen = FALSE
    /\ listeners = LifecycleEvents
    /\ events = <<>>
    /\ shown = NothingShown
    /\ lastOp = [op |-> "constructor", arg |-> 0, wasPlaying |-> FALSE]

\* The application's callbacks call no method of the controller.
Constructed == ConstructedWith("none")

Init == Constructed /\ input = <<>> /\ output = <<>>

\* A call made by the application (script runs only while the page is not frozen).
Call(s, op, arg) ==
    /\ ~frozen
    /\ s.frames <= MaxFrames
    /\ Commit(s)
    /\ Called(op, arg)
    /\ UNCHANGED <<pace, hidden, frozen, input, output>>

Load(toks, startIndex) == Call(load(Self, toks, startIndex), "load", startIndex)
SetWPM(w) == Call(setWPM(Self, w), "setWPM", w)
SetMode(m) == Call(setMode(Self, m), "setMode", 0)
Play == Call(play(Self), "play", 0)
Pause == Call(pause(Self), "pause", 0)
Stop == Call(stop(Self), "stop", 0)
Toggle == Call(toggle(Self), "toggle", 0)
Step(delta) == Call(step(Self, delta), "step", delta)
Seek(index) == Call(seek(Self, index), "seek", index)
SeekPercent(percent) == Call(seekPercent(Self, percent), "seekPercent", percent)
Rewind(words) == Call(rewind(Self, words), "rewind", words)

\* Frame timestamps are monotonic.  The controller remembers at most one of
\* them (lastTimestamp), so a timestamp is modelled by its distance from that
\* one; while none is remembered the origin of the host clock is free and the
\* frame is given timestamp 0.
TimestampsUpTo(limit) ==
    IF lastTimestamp = NoTimestamp THEN {0}
    ELSE IF pace > 0 THEN {t \in {lastTimestamp[1] + pace} : t <= limit}
    ELSE {t \in lastTimestamp[1]..(lastTimestamp[1] + MaxDelta) : t <= limit}

Timestamps == TimestampsUpTo(MaxTime)
RunTimestamps == TimestampsUpTo(MaxRunTime)

\* The host runs one queued frame callback.  The callback run is either the
\* one this.rafId names or another one still queued (left behind when play()
\* overwrote this.rafId).
Frame(timestamp, named) ==
    /\ ~frozen
    /\ IF named THEN rafId = "pending"
                ELSE frames > (IF rafId = "pending" THEN 1 ELSE 0)
    /\ LET s0 == [Self EXCEPT !.frames = @ - 1,
                              !.rafId = IF named THEN "fired" ELSE @]
       IN Commit(tick(s0, timestamp))
    /\ Called("tick", timestamp)
    /\ UNCHANGED <<pace, hidden, frozen, input, output>>

\* The host delivers a document event to the controller's listener for it, if
\* there is one.
Dispatch(type, handled) == IF type \in listeners THEN handled ELSE Self

\* visibilitychange, with document.hidden now true.
Hidden ==
    /\ ~frozen /\ ~hidden
    /\ hidden' = TRUE
    /\ Commit(Dispatch("visibilitychange", handleVisibilityChange(Self, TRUE)))
    /\ Called("hidden", 0)
    /\ UNCHANGED <<pace, frozen, input, output>>

\* visibilitychange, with document.hidden now false.
Visible ==
    /\ ~frozen /\ hidden
    /\ hidden' = FALSE
    /\ Commit(Dispatch("visibilitychange", handleVisibilityChange(Self, FALSE)))
    /\ Called("visible", 0)
    /\ UNCHANGED <<pace, frozen, input, output>>

\* freeze: delivered to a hidden page; no script runs until resume.
Freeze ==
    /\ ~frozen /\ hidden
    /\ frozen' = TRUE
    /\ Commit(Dispatch("freeze", handleFreeze(Self)))
    /\ Called("freeze", 0)
    /\ UNCHANGED <<pace, hidden, input, output>>

\* resume: the frozen page runs again, after a suspension of any length.
Resume ==
    /\ frozen
    /\ frozen' = FALSE
    /\ Commit(Dispatch("resume", handleResume(Self)))
    /\ Called("resume", 0)
    /\ UNCHANGED <<pace, hidden, input, output>>

Next ==
    \/ \E toks \in TokenSeqs, i \in IndexArgs : Load(toks, i)
    \/ \E w \in WpmArgs : SetWPM(w)
    \/ \E m \in Modes : SetMode(m)
    \/ Play
    \/ Pause
    \/ Stop
    \/ Toggle
    \/ \E delta \in StepArgs : Step(delta)
    \/ \E index \in IndexArgs : Seek(index)
    \/ \E percent \in PercentArgs : SeekPercent(percent)
    \/ \E words \in RewindArgs : Rewind(words)
    \/ \E timestamp \in Timestamps, named \in BOOLEAN : Frame(timestamp, named)
    \/ Hidden
    \/ Visible
    \/ Freeze
    \/ Resume

Spec == Init /\ [][Next]_vars

\* An undisturbed run: a sequence is loaded at position 0, the rate is set,
\* play() is called, and from then on only frames arrive, at a fixed pace or
\* (pace = 0) irregularly, until the run completes.
InitRun ==
    /\ tokens = <<>>
    /\ currentIndex = 0
    /\ isPlaying = FALSE
    /\ wpm = DEFAULT_WPM
    /\ mode = "reading"
    /\ rafId = "null"
    /\ lastTimestamp = NoTimestamp
    /\ accumulatedTime = 0
    /\ currentTokenDuration = 0
    /\ wasPlayingBeforeHidden = FALSE
    /\ observer = "none"
    /\ frames = 0
    /\ pace \in 0..MaxDelta
    /\ hidden = FALSE
    /\ frozen = FALSE
    /\ listeners = LifecycleEvents
    /\ input = <<>>
    /\ output = <<>>
    /\ events = <<>>
    /\ shown = NothingShown
    /\ lastOp = [op |-> "constructor", arg |-> 0, wasPlaying |-> FALSE]

RunLoad == lastOp.op = "constructor" /\ \E toks \in RunTokenSeqs : Load(toks, 0)
RunSetWPM == lastOp.op = "load" /\ \E w \in RunRates : SetWPM(w)
RunPlay == lastOp.op = "setWPM" /\ Play
RunFrame ==
    /\ lastOp.op \in {"play", "tick"}
    /\ \E timestamp \in RunTimestamps : Frame(timestamp, TRUE)

NextRun == RunLoad \/ RunSetWPM \/ RunPlay \/ RunFrame

SpecRun == InitRun /\ [][NextRun]_vars

\* --------------------------------------------------------------------------
\* The restart specification: playback is started, paused, restarted and
\* sought while frames arrive.  Here the host clock is not reset with the
\* baseline: the first frame after a (re)start carries any timestamp up to
\* MaxTime, later ones follow it by at most MaxDelta.
RestartTimestamps ==
    IF lastTimestamp = NoTimestamp THEN 0..MaxTime
    ELSE {t \in lastTimestamp[1]..(lastTimestamp[1] + MaxDelta) : t <= MaxTime}

RestartLoad == lastOp.op = "constructor" /\ \E toks \in TokenSeqs : Load(toks, 0)
RestartPlay == lastOp.op # "constructor" /\ Play
RestartToggle == lastOp.op # "constructor" /\ Toggle
RestartSeek == lastOp.op # "constructor" /\ \E index \in IndexArgs : Seek(index)
RestartSetWPM == lastOp.op # "constructor" /\ \E w \in WpmArgs : SetWPM(w)
RestartFrame ==
    \E timestamp \in RestartTimestamps, named \in BOOLEAN : Frame(timestamp, named)

NextRestart ==
    \/ RestartLoad
    \/ RestartPlay
    \/ RestartToggle
    \/ RestartSeek
    \/ RestartSetWPM
    \/ RestartFrame

SpecRestart == Init /\ [][NextRestart]_vars

\* --------------------------------------------------------------------------
\* The live run: an undisturbed run of a sequence of TokenSeqs whose frames
\* carry strictly increasing timestamps and keep arriving as long as one is
\* requested (the host calls every requested frame callback).  Every token
\* takes at most as many frames as its duration has milliseconds (at most 2),
\* so no run outlasts LiveTimeLimit.
LiveTimeLimit == MaxDelta * MaxLen * 2

LiveLoad == lastOp.op = "constructor" /\ \E toks \in TokenSeqs : Load(toks, 0)

LiveFrame ==
    /\ lastOp.op \in {"play", "tick"}
    /\ \E timestamp \in TimestampsUpTo(LiveTimeLimit) :
          /\ lastTimestamp # NoTimestamp => timestamp > lastTimestamp[1]
          /\ Frame(timestamp, TRUE)

NextLive == LiveLoad \/ RunSetWPM \/ RunPlay \/ LiveFrame

SpecLive == InitRun /\ [][NextLive]_vars /\ WF_vars(LiveFrame)

\* --------------------------------------------------------------------------
\* The re-entrant specification: the controller is constructed with callbacks
\* of which one may call pause(), and is then loaded, toggled and run.
Observers == {"none", "onTick", "onProgress"}

InitReentrant ==
    /\ \E callbacks \in Observers : ConstructedWith(callbacks)
    /\ input = <<>>
    /\ output = <<>>

ReentrantLoad == lastOp.op = "constructor" /\ \E toks \in TokenSeqs : Load(toks, 0)
ReentrantToggle == lastOp.op # "constructor" /\ Toggle
ReentrantSetWPM == lastOp.op # "constructor" /\ \E w \in WpmArgs : SetWPM(w)
ReentrantFrame == \E timestamp \in Timestamps : Frame(timestamp, TRUE)

NextReentrant ==
    \/ ReentrantLoad
    \/ ReentrantToggle
    \/ ReentrantSetWPM
    \/ ReentrantFrame

SpecReentrant == InitReentrant /\ [][NextReentrant]_vars

\* --------------------------------------------------------------------------
\* The percentage specification: a loaded, paused controller that is sought by
\* percentage and by index.
PercentLoad == lastOp.op = "constructor" /\ \E toks \in PercentTokenSeqs : Load(toks, 0)
PercentSeekPercent == lastOp.op # "constructor" /\ \E percent \in Percents : SeekPercent(percent)
PercentSeek ==
    /\ lastOp.op # "constructor"
    /\ \E percent \in Percents : Seek(floorOfPercent(percent, Len(tokens)))

NextPercent ==
    \/ PercentLoad
    \/ PercentSeekPercent
    \/ PercentSeek

SpecPercent == Init /\ [][NextPercent]_vars

\* --------------------------------------------------------------------------
\* The teardown specification: a controller that is played, destroyed, and then
\* still receives the host's lifecycle events and the application's toggles.
Destroy == Call(destroy(Self), "destroy", 0)

TeardownLoad == lastOp.op = "constructor" /\ \E toks \in TokenSeqs : Load(toks, 0)
TeardownToggle == lastOp.op # "constructor" /\ Toggle
TeardownDestroy == lastOp.op # "constructor" /\ Destroy
TeardownFrame ==
    /\ lastOp.op # "constructor"
    /\ \E timestamp \in Timestamps : Frame(timestamp, TRUE)

NextTeardown ==
    \/ TeardownLoad
    \/ TeardownToggle
    \/ TeardownDestroy
    \/ TeardownFrame
    \/ Hidden
    \/ Visible
    \/ Freeze
    \/ Resume

SpecTeardown == Init /\ [][NextTeardown]_vars

\* --------------------------------------------------------------------------
\* The snapshot specification: the application saves the progress of the
\* document being read (kept in `output`, with the document's tokens) at any
\* moment, and later reopens the document from the saved progress.
SaveProgress ==
    /\ ~frozen
    /\ output' = [tokens |-> tokens, progress |-> saveProgress(Self)]
    /\ Commit(Self)
    /\ Called("saveProgress", 0)
    /\ UNCHANGED <<pace, hidden, frozen, input>>

OpenReader ==
    /\ output # <<>>
    /\ Call(openReader(Self, output.tokens, output.progress), "openReader",
            output.progress.currentIndex)

SnapshotLoad == \E toks \in TokenSeqs : Load(toks, 0)
SnapshotToggle == lastOp.op # "constructor" /\ Toggle
SnapshotStep == lastOp.op # "constructor" /\ \E delta \in StepArgs : Step(delta)
SnapshotSetWPM == lastOp.op # "constructor" /\ \E w \in WpmArgs : SetWPM(w)
SnapshotSetMode == lastOp.op # "constructor" /\ \E m \in Modes : SetMode(m)

NextSnapshot ==
    \/ SnapshotLoad
    \/ SnapshotToggle
    \/ SnapshotStep
    \/ SnapshotSetWPM
    \/ SnapshotSetMode
    \/ SaveProgress
    \/ OpenReader

SpecSnapshot == Init /\ [][NextSnapshot]_vars

\* --------------------------------------------------------------------------
\* The tokenizer.  A string is a sequence of one-character strings; the index
\* of a character is 0-based as in the source, so word[i + 1] is the
\* character at index i.
Lowercase ==
    {"a", "b", "c", "d", "e", "f", "g", "h", "i", "j", "k", "l", "m",
     "n", "o", "p", "q", "r", "s", "t", "u", "v", "w", "x", "y", "z"}
Uppercase ==
    {"A", "B", "C", "D", "E", "F", "G", "H", "I", "J", "K", "L", "M",
     "N", "O", "P", "Q", "R", "S", "T", "U", "V", "W", "X", "Y", "Z"}
Digits == {"0", "1", "2", "3", "4", "5", "6", "7", "8", "9"}

\* /[a-zA-Z0-9]/.test(c)
IsAlphanumeric(c) == c \in Lowercase \cup Uppercase \cup Digits

\* word.replace(/[^a-zA-Z0-9]/g, '')
cleanWord(word) == SelectSeq(word, IsAlphanumeric)

calculateORP(word) ==
    LET len == Len(cleanWord(word))
    IN IF len <= 1 THEN 0
       ELSE IF len <= 3 THEN 0
       ELSE IF len <= 5 THEN 1
       ELSE IF len <= 9 THEN 2
       ELSE IF len <= 13 THEN 3
       ELSE 4

\* word.match(/^[^a-zA-Z0-9]*/)[0].length
RECURSIVE leadingOffset(_)
leadingOffset(word) ==
    IF word = <<>> \/ IsAlphanumeric(Head(word)) THEN 0
    ELSE 1 + leadingOffset(Tail(word))

\* The loop of findORPInWord from index i on, with cleanIndex alphanumeric
\* characters passed so far; `fallback` is returned when the loop ends.
RECURSIVE mapToOriginal(_, _, _, _, _)
mapToOriginal(word, i, cleanIndex, orpInClean, fallback) ==
    IF i >= Len(word) THEN fallback
    ELSE IF IsAlphanumeric(word[i + 1])
         THEN IF cleanIndex = orpInClean THEN i
              ELSE mapToOriginal(word, i + 1, cleanIndex + 1, orpInClean, fallback)
         ELSE mapToOriginal(word, i + 1, cleanIndex, orpInClean, fallback)

\* A findORPInWord that counts every character after the leading punctuation,
\* alphanumeric or not.
findORPInWordCountingAll(word) ==
    LET offset == leadingOffset(word)
        clean == cleanWord(SubSeq(word, offset + 1, Len(word)))
    IN offset + calculateORP(clean)

findORPInWord(word) ==
    LET offset == leadingOffset(word)
        clean == cleanWord(SubSeq(word, offset + 1, Len(word)))
        orpInClean == calculateORP(clean)
    IN mapToOriginal(word, offset, 0, orpInClean, offset)

\* The multipliers of TIMING_CONFIGS, in tenths.
TIMING_CONFIGS ==
    [reading |->
        [longWordMultiplier |-> 12, minorPunctMultiplier |-> 13,
         majorPunctMultiplier |-> 16, terminalPunctMultiplier |-> 20,
         paragraphEndMultiplier |-> 25, paragraphStartMultiplier |-> 13,
         abbreviationMultiplier |-> 14, numericMultiplier |-> 13],
     skim |->
        [longWordMultiplier |-> 10, minorPunctMultiplier |-> 11,
         majorPunctMultiplier |-> 12, terminalPunctMultiplier |-> 14,
         paragraphEndMultiplier |-> 16, paragraphStartMultiplier |-> 11,
         abbreviationMultiplier |-> 11, numericMultiplier |-> 11]]

RECURSIVE GCD(_, _)
GCD(a, b) == IF b = 0 THEN a ELSE GCD(b, a % b)

\* multiplier *= tenths / 10, the multiplier being the fraction num / den.
Times(multiplier, tenths) ==
    [num |-> multiplier.num * tenths, den |-> multiplier.den * 10]

\* A multiplier that takes no account of long words.
multiplierFromWithoutLongWord(start, flags, config) ==
    LET m1 == [num |-> start, den |-> 1]
        m2 == IF flags.isAbbreviation
              THEN Times(m1, config.abbreviationMultiplier) ELSE m1
        m3 == IF flags.isNumeric THEN Times(m2, config.numericMultiplier) ELSE m2
        m4 == CASE flags.punctuation = "minor"
                     -> Times(m3, config.minorPunctMultiplier)
                [] flags.punctuation = "major"
                     -> Times(m3, config.majorPunctMultiplier)
                [] flags.punctuation = "terminal"
                     -> Times(m3, config.terminalPunctMultiplier)
                [] OTHER -> m3
        m5 == IF flags.isParagraphEnd
              THEN Times(m4, config.paragraphEndMultiplier) ELSE m4
    IN IF flags.isParagraphStart
       THEN Times(m5, config.paragraphStartMultiplier) ELSE m5

\* The multiplier calculateBaseDuration accumulates, starting from `start`.
multiplierFrom(start, flags, config) ==
    LET m0 == [num |-> start, den |-> 1]
        m1 == IF flags.isLongWord THEN Times(m0, config.longWordMultiplier) ELSE m0
        m2 == IF flags.isAbbreviation
              THEN Times(m1, config.abbreviationMultiplier) ELSE m1
        m3 == IF flags.isNumeric THEN Times(m2, config.numericMultiplier) ELSE m2
        m4 == CASE flags.punctuation = "minor"
                     -> Times(m3, config.minorPunctMultiplier)
                [] flags.punctuation = "major"
                     -> Times(m3, config.majorPunctMultiplier)
                [] flags.punctuation = "terminal"
                     -> Times(m3, config.terminalPunctMultiplier)
                [] OTHER -> m3
        m5 == IF flags.isParagraphEnd
              THEN Times(m4, config.paragraphEndMultiplier) ELSE m4
    IN IF flags.isParagraphStart
       THEN Times(m5, config.paragraphStartMultiplier) ELSE m5

\* Math.round(BASE_MS * multiplier): the values it can return.  The source
\* multiplies binary floating-point numbers, whose product misses the exact
\* one by a few units in the last place: where the exact product is not half
\* way between two integers this does not change the rounding; where it is
\* (300 * 1.4 * 1.3 * 1.3 * 2.5 = 1774.5 exactly, 1774.4999999999998 in the
\* source) the result is either neighbour.
RoundedProducts(base, multiplier) ==
    LET g == GCD(multiplier.num, multiplier.den)
        n == base * (multiplier.num \div g)
        d == multiplier.den \div g
    IN IF n % d # 0 /\ (2 * n) % d = 0
       THEN {n \div d, n \div d + 1}
       ELSE {Round(n, d)}

\* A calculateBaseDuration whose multiplier starts at 0.
calculateBaseDurationFromZero(flags, timingMode) ==
    LET config == IF timingMode \in DOMAIN TIMING_CONFIGS
                  THEN TIMING_CONFIGS[timingMode] ELSE TIMING_CONFIGS.reading
    IN RoundedProducts(BASE_MS, multiplierFrom(0, flags, config))

\* The values calculateBaseDuration(flags, mode) can return.
calculateBaseDuration(flags, timingMode) ==
    LET config == IF timingMode \in DOMAIN TIMING_CONFIGS
                  THEN TIMING_CONFIGS[timingMode] ELSE TIMING_CONFIGS.reading
    IN RoundedProducts(BASE_MS, multiplierFrom(1, flags, config))

\* The duration specification: calculateBaseDuration applied to one
\* combination of flags in one mode.
InitDuration ==
    /\ Constructed
    /\ input \in [flags : AllFlags, mode : Modes]
    /\ output = <<>>

CalculateBaseDuration ==
    /\ output = <<>>
    /\ \E duration \in calculateBaseDuration(input.flags, input.mode) :
          output' = <<duration>>
    /\ UNCHANGED <<schedulerVars, input>>

NextDuration == CalculateBaseDuration

SpecDuration == InitDuration /\ [][NextDuration]_vars

\* The word specification: findORPInWord applied to one word, as tokenize
\* applies it to every word of the text.
InitWord == Constructed /\ input \in Words /\ output = <<>>

FindORPInWord ==
    /\ output = <<>>
    /\ output' = <<findORPInWord(input)>>
    /\ UNCHANGED <<schedulerVars, input>>

NextWord == FindORPInWord

SpecWord == InitWord /\ [][NextWord]_vars

\* --------------------------------------------------------------------------
\* tokenize.  A text is a sequence of characters, like a word.
\* The characters \s matches and trim() strips, as far as texts have them.
IsWhitespace(c) == c \in {" ", "\t", "\n", "\r"}

\* The character classes of TERMINAL_PUNCT, MAJOR_PUNCT and MINOR_PUNCT; the
\* characters outside ASCII are written by name.
TerminalPunct == {".", "!", "?", "ellipsis"}
MajorPunct == {":", ";", "emdash", "endash"}
MinorPunct == {",", "(", ")", "'", "\"", "-"}
NumericChars == Digits \cup {",", ".", "$", "%"}
LONG_WORD_THRESHOLD == 8

\* Each pattern is anchored at the end of the word and asks for one character
\* of its class or more: it matches when the last character is of the class.
classifyPunctuation(word) ==
    CASE word # <<>> /\ word[Len(word)] \in TerminalPunct -> "terminal"
      [] word # <<>> /\ word[Len(word)] \in MajorPunct -> "major"
      [] word # <<>> /\ word[Len(word)] \in MinorPunct -> "minor"
      [] OTHER -> "none"

\* /^[\d,.$%]+$/
IsNumeric(word) == word # <<>> /\ \A i \in DOMAIN word : word[i] \in NumericChars

\* /^([A-Z]\.)+$/
IsAbbreviation(word) ==
    /\ word # <<>>
    /\ Len(word) % 2 = 0
    /\ \A i \in DOMAIN word :
          IF i % 2 = 1 THEN word[i] \in Uppercase ELSE word[i] = "."

createFlags(word, isParagraphStart, isParagraphEnd) ==
    [isParagraphStart |-> isParagraphStart,
     isParagraphEnd |-> isParagraphEnd,
     punctuation |-> classifyPunctuation(word),
     isLongWord |-> Len(cleanWord(word)) > LONG_WORD_THRESHOLD,
     isNumeric |-> IsNumeric(word),
     isAbbreviation |-> IsAbbreviation(word)]

\* text.replace(/\r\n/g, '\n')
RECURSIVE replaceCRLF(_)
replaceCRLF(text) ==
    IF text = <<>> THEN <<>>
    ELSE IF Len(text) >= 2 /\ text[1] = "\r" /\ text[2] = "\n"
    THEN <<"\n">> \o replaceCRLF(SubSeq(text, 3, Len(text)))
    ELSE <<text[1]>> \o replaceCRLF(Tail(text))

\* text.replace(/\r/g, '\n')
replaceCR(text) == [i \in DOMAIN text |-> IF text[i] = "\r" THEN "\n" ELSE text[i]]

\* text.split(/\n\s*\n/): the leftmost match starts at the first newline that
\* is followed, over whitespace only, by another newline, and being greedy it
\* ends at the last such newline.  The text after the last match, empty or
\* not, is the last piece.
RECURSIVE splitOnBlankLines(_)
splitOnBlankLines(text) ==
    LET Closes(i, j) ==
            /\ text[i] = "\n"
            /\ text[j] = "\n"
            /\ \A k \in (i + 1)..(j - 1) : IsWhitespace(text[k])
        starts == {i \in DOMAIN text : \E j \in (i + 1)..Len(text) : Closes(i, j)}
    IN IF starts = {} THEN <<text>>
       ELSE LET i == CHOOSE a \in starts : \A b \in starts : a <= b
                ends == {j \in (i + 1)..Len(text) : Closes(i, j)}
                j == CHOOSE a \in ends : \A b \in ends : a >= b
            IN <<SubSeq(text, 1, i - 1)>>
                   \o splitOnBlankLines(SubSeq(text, j + 1, Len(text)))

\* p.trim()
trim(p) ==
    LET kept == {i \in DOMAIN p : ~IsWhitespace(p[i])}
    IN IF kept = {} THEN <<>>
       ELSE SubSeq(p, CHOOSE a \in kept : \A b \in kept : a <= b,
                      CHOOSE a \in kept : \A b \in kept : a >= b)

IsNonEmpty(p) == Len(p) > 0

splitIntoParagraphs(text) ==
    LET pieces == splitOnBlankLines(replaceCR(replaceCRLF(text)))
    IN SelectSeq([i \in DOMAIN pieces |-> trim(pieces[i])], IsNonEmpty)

\* paragraph.replace(/\s+/g, ' ')
RECURSIVE collapseWhitespace(_)
collapseWhitespace(p) ==
    IF p = <<>> THEN <<>>
    ELSE IF ~IsWhitespace(p[1]) THEN <<p[1]>> \o collapseWhitespace(Tail(p))
    ELSE IF Len(p) >= 2 /\ IsWhitespace(p[2]) THEN collapseWhitespace(Tail(p))
    ELSE <<" ">> \o collapseWhitespace(Tail(p))

\* normalized.split(' ')
RECURSIVE splitOnSpace(_)
splitOnSpace(p) ==
    LET spaces == {i \in DOMAIN p : p[i] = " "}
    IN IF spaces = {} THEN <<p>>
       ELSE LET i == CHOOSE a \in spaces : \A b \in spaces : a <= b
            IN <<SubSeq(p, 1, i - 1)>> \o splitOnSpace(SubSeq(p, i + 1, Len(p)))

\* A splitIntoWords that splits on spaces without normalizing the whitespace.
splitIntoWordsOnSpaces(paragraph) == SelectSeq(splitOnSpace(paragraph), IsNonEmpty)

splitIntoWords(paragraph) ==
    SelectSeq(splitOnSpace(trim(collapseWhitespace(paragraph))), IsNonEmpty)

\* The inner loop of tokenize: the tokens of one paragraph, but for their
\* baseDurationMs.
paragraphEntries(paragraph) ==
    LET words == splitIntoWords(paragraph)
    IN [wIdx \in DOMAIN words |->
           [word |-> words[wIdx],
            orpIndex |-> findORPInWord(words[wIdx]),
            flags |-> createFlags(words[wIdx], wIdx = 1, wIdx = Len(words))]]

\* The outer loop of tokenize.
RECURSIVE entriesOf(_)
entriesOf(paragraphs) ==
    IF paragraphs = <<>> THEN <<>>
    ELSE paragraphEntries(Head(paragraphs)) \o entriesOf(Tail(paragraphs))

\* The token sequences the entries can become: each token takes one of the
\* values calculateBaseDuration can return for its flags.
tokensOf(entries, timingMode) ==
    LET choices == UNION {calculateBaseDuration(entries[i].flags, timingMode) :
                             i \in DOMAIN entries}
        durations == {d \in [DOMAIN entries -> choices] :
                         \A i \in DOMAIN entries :
                            d[i] \in calculateBaseDuration(entries[i].flags, timingMode)}
    IN {[i \in DOMAIN entries |->
            [word |-> entries[i].word,
             orpIndex |-> entries[i].orpIndex,
             baseDurationMs |-> d[i],
             flags |-> entries[i].flags]] : d \in durations}

\* A tokenize that takes the whole text as one paragraph.
tokenizeAsOneParagraph(text, timingMode) ==
    tokensOf(entriesOf(<<text>>), timingMode)

\* The token sequences tokenize(text, mode) can return.
tokenize(text, timingMode) ==
    tokensOf(entriesOf(splitIntoParagraphs(text)), timingMode)

\* The text specification: tokenize applied to one text in one mode.
TextChars == {"a", "b", " ", "\n", "\r"}
Texts == UNION {[1..n -> TextChars] : n \in 0..MaxTextLen}

InitText == Constructed /\ input \in Texts /\ output = <<>>

Tokenize ==
    /\ output = <<>>
    /\ \E timingMode \in Modes :
          \E toks \in tokenize(input, timingMode) : output' = <<toks>>
    /\ UNCHANGED <<schedulerVars, input>>

NextText == Tokenize

SpecText == InitText /\ [][NextText]_vars

\* --------------------------------------------------------------------------
\* The punctuation specification: classifyPunctuation applied to one word, as
\* createFlags applies it to every word of the text.  The words are those of
\* up to MaxWordLen characters over a letter and one character of each class.
PunctChars == {"a", ".", ";", ")"}
PunctWords == UNION {[1..n -> PunctChars] : n \in 1..MaxWordLen}

InitPunct == Constructed /\ input \in PunctWords /\ output = <<>>

ClassifyPunctuation ==
    /\ output = <<>>
    /\ output' = <<classifyPunctuation(input)>>
    /\ UNCHANGED <<schedulerVars, input>>

NextPunct == ClassifyPunctuation

SpecPunct == InitPunct /\ [][NextPunct]_vars

\* --------------------------------------------------------------------------
\* The display specification: the base duration of a token is computed from
\* its flags as tokenize computes it, the token is loaded, and it is played
\* at a rate set before or after playback starts.
InitShow ==
    /\ Constructed
    /\ input \in [flags : AllFlags, mode : Modes, rate : RateArgs]
    /\ output = <<>>

ShowCalculate ==
    /\ output = <<>>
    /\ \E duration \in calculateBaseDuration(input.flags, input.mode) :
          output' = <<duration>>
    /\ UNCHANGED <<schedulerVars, input>>

ShowLoad == output # <<>> /\ lastOp.op = "constructor" /\ Load(output, 0)
ShowSetWPM == lastOp.op \in {"load", "play"} /\ SetWPM(input.rate)
ShowPlay == lastOp.op \in {"load", "setWPM"} /\ ~isPlaying /\ Play

NextShow ==
    \/ ShowCalculate
    \/ ShowLoad
    \/ ShowSetWPM
    \/ ShowPlay

SpecShow == InitShow /\ [][NextShow]_vars

\* --------------------------------------------------------------------------
\* The scaling specification: getDisplayDuration applied to one base duration
\* at two rates.
InitScale ==
    /\ Constructed
    /\ input \in [base : ScaleBases, r1 : ScaleRates, r2 : ScaleRates]
    /\ input.r1 < input.r2
    /\ output = <<>>

Scale ==
    /\ output = <<>>
    /\ output' = <<getDisplayDuration(input.base, input.r1),
                   getDisplayDuration(input.base, input.r2)>>
    /\ UNCHANGED <<schedulerVars, input>>

NextScale == Scale

SpecScale == InitScale /\ [][NextScale]_vars

\* --------------------------------------------------------------------------
\* The rate specification: one token, paused or playing, and any sequence of
\* setWPM and adjustWPM calls.
AdjustWPM(delta) == Call(adjustWPM(Self, delta), "adjustWPM", delta)

RateLoad == lastOp.op = "constructor" /\ Load(<<2>>, 0)
RateToggle == lastOp.op # "constructor" /\ Toggle
RateSetWPM == lastOp.op # "constructor" /\ \E w \in RateArgs : SetWPM(w)
RateAdjustWPM == lastOp.op # "constructor" /\ \E delta \in DeltaArgs : AdjustWPM(delta)

NextRate == RateLoad \/ RateToggle \/ RateSetWPM \/ RateAdjustWPM

SpecRate == Init /\ [][NextRate]_vars

\* ===================================================================
\* Properties
\* ===================================================================
RECURSIVE BaseTotal(_)
\* The sum of the base durations of a token sequence.
BaseTotal(toks) ==
    IF toks = <<>> THEN 0 ELSE toks[1] + BaseTotal(Tail(toks))

RECURSIVE ScaledTotal(_, _)
\* The sum of the on-screen durations of a token sequence at rate w.
ScaledTotal(toks, w) ==
    IF toks = <<>> THEN 0
    ELSE getDisplayDuration(toks[1], w) + ScaledTotal(Tail(toks), w)

Abs(x) == IF x < 0 THEN -x ELSE x

EventTypes == {events[i].type : i \in 1..Len(events)}
EventsOfType(type) == {events[i] : i \in {j \in 1..Len(events) : events[j].type = type}}

\* The last call was a frame callback that emitted the completion notification.
Completed == lastOp.op = "tick" /\ "complete" \in EventTypes

\* ------------------------------------------------------------------- C1
\* C1: after any sequence of operations the position is a valid index of the
\* loaded sequence, 0 <= currentIndex < length, and it is 0 while the sequence
\* is empty.
C1_PositionInRange ==
    IF Len(tokens) = 0 THEN currentIndex = 0
    ELSE currentIndex \in 0..(Len(tokens) - 1)

\* A seek beyond the end of a full-length sequence has been served.
C1_Witness ==
    /\ lastOp.op = "seek"
    /\ Len(tokens) = MaxLen
    /\ lastOp.arg > Len(tokens) - 1

\* ------------------------------------------------------------------- C2
\* C2: when seek(i) returns on a non-empty sequence of length L, the position
\* is min(max(i, 0), L - 1), whether playback was running or paused.
C2_SeekClamps ==
    (lastOp.op = "seek" /\ Len(tokens) > 0)
        => currentIndex = Min(Max(lastOp.arg, 0), Len(tokens) - 1)

\* ------------------------------------------------------------------- C3
\* C3: a frame callback that runs while playback is not running (pause, stop
\* or load has returned and play has not been called since) leaves the
\* position and the accumulator as they were and invokes no callback.
C3_CancelledTickInert ==
    [][(lastOp'.op = "tick" /\ ~isPlaying)
          => /\ currentIndex' = currentIndex
             /\ accumulatedTime' = accumulatedTime
             /\ events' = <<>>]_vars

\* A frame callback queued before a pause has run after it.
C3_Witness ==
    /\ lastOp.op = "tick"
    /\ ~lastOp.wasPlaying
    /\ accumulatedTime > 0

\* ------------------------------------------------------------------- C4
\* C4: when the "visible" handler or the "resume" handler returns,
\* lastTimestamp is unset and accumulatedTime is 0; and no frame callback
\* moves the position forward by more than one token.
C4_SuspensionSafe ==
    [][/\ lastOp'.op \in {"visible", "resume"}
            => (lastTimestamp' = NoTimestamp /\ accumulatedTime' = 0)
       /\ lastOp'.op = "tick" => currentIndex' <= currentIndex + 1]_vars

\* The baseline frame of a run started after playback was hidden while
\* running and made visible again.
C4_Witness ==
    /\ lastOp.op = "tick"
    /\ lastOp.wasPlaying
    /\ wasPlayingBeforeHidden
    /\ ~hidden
    /\ lastTimestamp = <<0>>

\* ------------------------------------------------------------------- C5
\* C5: "hidden" while running records that playback was running and pauses;
\* "visible" never starts playback; playback only starts in play or toggle
\* (seek restarts it only when it was running).
C5_NoAutoResume ==
    /\ (lastOp.op = "hidden" /\ lastOp.wasPlaying)
          => (wasPlayingBeforeHidden /\ ~isPlaying /\ rafId = "null")
    /\ lastOp.op = "visible" => (isPlaying => lastOp.wasPlaying)
    /\ (isPlaying /\ ~lastOp.wasPlaying) => lastOp.op \in {"play", "toggle"}

\* The page has become visible again after being hidden while running.
C5_Witness ==
    /\ lastOp.op = "visible"
    /\ wasPlayingBeforeHidden
    /\ ~isPlaying

\* ------------------------------------------------------------------- C6
\* The frame pace is small: no token is on screen for less than one frame.
SmallPace ==
    /\ pace > 0
    /\ \A i \in 1..Len(tokens) : pace <= getDisplayDuration(tokens[i], wpm)

\* C6 (as claimed): in an undisturbed run at a fixed small pace, completion
\* is notified when the time elapsed since the baseline frame is within one
\* frame of scale(D, R) = round(D * 200 / R), D the sum of the base durations.
C6_DriftFreeAgainstScaledSum ==
    (SmallPace /\ Completed)
        => Abs(lastOp.arg - getDisplayDuration(BaseTotal(tokens), wpm)) <= pace

\* C6 (amended): in an undisturbed run at a fixed small pace, completion is
\* notified at the first frame at or after the sum of the tokens' scaled
\* durations: the elapsed time T satisfies S <= T < S + pace, where
\* S = sum of round(b_i * 200 / R).
C6_DriftFreeAgainstSumOfScaled ==
    (SmallPace /\ Completed)
        => /\ ScaledTotal(tokens, wpm) <= lastOp.arg
           /\ lastOp.arg < ScaledTotal(tokens, wpm) + pace

\* A run of several tokens has completed on a frame later than the exact end.
C6_Witness ==
    /\ SmallPace
    /\ Completed
    /\ Len(tokens) > 1
    /\ lastOp.arg > ScaledTotal(tokens, wpm)

\* ------------------------------------------------------------------- C7
\* C7: in an undisturbed run at rate 200, once the frames since the baseline
\* frame total the sum of the first k base durations (k < L), the position is
\* k and completion has not been notified.
C7_PositionAfterPrefix ==
    (lastOp.op = "tick" /\ wpm = BASE_WPM)
        => \A k \in 0..(Len(tokens) - 1) :
              lastOp.arg = BaseTotal(SubSeq(tokens, 1, k))
                 => (currentIndex = k /\ isPlaying /\ ~Completed)

\* ------------------------------------------------------------------- C8
\* The accumulated time a frame with this timestamp brings the token to.
ElapsedAt(timestamp) ==
    accumulatedTime
      + (IF lastTimestamp = NoTimestamp THEN 0 ELSE timestamp - lastTimestamp[1])

\* C8: a frame that takes the position past the last index leaves the position
\* at length - 1, playback paused and no frame callback requested, and emits
\* the completion notification last, with isPlaying = false and the position
\* length - 1 already in effect.
C8_CompletionAtEnd ==
    [][(/\ lastOp'.op = "tick"
        /\ isPlaying
        /\ currentIndex = Len(tokens) - 1
        /\ ElapsedAt(lastOp'.arg) >= currentTokenDuration)
          => /\ currentIndex' = Len(tokens') - 1
             /\ ~isPlaying'
             /\ rafId' = "null"
             /\ frames' < frames
             /\ events' # <<>>
             /\ events'[Len(events')].type = "complete"
             /\ ~events'[Len(events')].isPlaying
             /\ events'[Len(events')].currentIndex = Len(tokens') - 1]_vars

\* A run of a full-length sequence has completed.
C8_Witness ==
    /\ Completed
    /\ Len(tokens) = MaxLen
    /\ currentIndex = MaxLen - 1

\* ------------------------------------------------------------------- C9
\* C9: step(delta) preserves the running flag: running before, running after
\* (with the accumulator reset); paused before, paused after.
C9_StepPreservesRunning ==
    lastOp.op = "step"
        => (isPlaying = lastOp.wasPlaying /\ accumulatedTime = 0)

\* ------------------------------------------------------------------ C10
\* C10: seek on a non-empty sequence preserves the running flag, leaves
\* accumulatedTime 0 and lastTimestamp unset, and has emitted token-changed
\* and progress-changed for the position it leaves.
C10_SeekDiscontinuity ==
    (lastOp.op = "seek" /\ Len(tokens) > 0)
        => /\ isPlaying = lastOp.wasPlaying
           /\ accumulatedTime = 0
           /\ lastTimestamp = NoTimestamp
           /\ \E e \in EventsOfType("tick") : e.currentIndex = currentIndex
           /\ \E e \in EventsOfType("progress") : e.currentIndex = currentIndex

\* ------------------------------------------------------------------ C11
\* C11: setWPM(r), in any state, leaves the position, the running flag, the
\* token sequence and accumulatedTime as they were: a rate change while
\* playing neither moves the position nor restarts the token in flight.
C11_SetRateFrame ==
    [][lastOp'.op = "setWPM"
          => /\ currentIndex' = currentIndex
             /\ isPlaying' = isPlaying
             /\ tokens' = tokens
             /\ accumulatedTime' = accumulatedTime]_vars

\* The rate has been changed while a token was partly shown.
C11_Witness ==
    /\ lastOp.op = "setWPM"
    /\ isPlaying
    /\ accumulatedTime > 0
    /\ currentIndex > 0

\* ------------------------------------------------------------------ C12
\* C12: after any sequence of setWPM(r) and adjustWPM(d) calls with arbitrary
\* integer arguments the rate is within MIN_WPM..MAX_WPM, and no call is
\* rejected: each takes effect as the clamp of the requested rate and is
\* reported by a state-changed notification.
ClampWPM(w) == Max(MIN_WPM, Min(MAX_WPM, w))

C12_RateInRange ==
    [][/\ wpm' \in MIN_WPM..MAX_WPM
       /\ lastOp'.op = "setWPM" => wpm' = ClampWPM(lastOp'.arg)
       /\ lastOp'.op = "adjustWPM" => wpm' = ClampWPM(wpm + lastOp'.arg)
       /\ lastOp'.op \in {"setWPM", "adjustWPM"}
             => /\ events' # <<>>
                /\ events'[Len(events')].type = "state"
                /\ events'[Len(events')].wpm = wpm']_vars

\* A very large downward adjustment during playback has been clamped to the
\* lower limit.
C12_Witness ==
    /\ lastOp.op = "adjustWPM"
    /\ lastOp.arg < -MAX_WPM
    /\ isPlaying
    /\ wpm = MIN_WPM

\* ------------------------------------------------------------------ C13
\* C13: play() on a non-empty sequence first rewinds to 0 when the position is
\* at or past the last index, and otherwise keeps it; it always ends running,
\* with accumulatedTime 0, lastTimestamp unset and one more frame requested.
C13_PlayStarts ==
    [][(lastOp'.op = "play" /\ Len(tokens) > 0)
          => /\ currentIndex' =
                   (IF currentIndex >= Len(tokens) - 1 THEN 0 ELSE currentIndex)
             /\ isPlaying'
             /\ accumulatedTime' = 0
             /\ lastTimestamp' = NoTimestamp
             /\ rafId' = "pending"
             /\ frames' = frames + 1]_vars

\* play() has started a sequence of several tokens from a paused state.
C13_Witness ==
    /\ lastOp.op = "play"
    /\ ~lastOp.wasPlaying
    /\ isPlaying
    /\ Len(tokens) = MaxLen

\* ------------------------------------------------------------------ C14
\* C14: while the loaded sequence is empty, playback is not running, the
\* position is 0 and no token-changed or completion notification is emitted;
\* play() and toggle() on an empty sequence change nothing, request no frame
\* and invoke no callback.  (No call reads a token of the empty sequence:
\* every such read in the model is an evaluation error.)
C14_EmptySequenceSafe ==
    [][/\ Len(tokens') = 0
            => /\ ~isPlaying'
               /\ currentIndex' = 0
               /\ \A i \in 1..Len(events') :
                     events'[i].type \notin {"tick", "complete"}
       /\ (lastOp'.op \in {"play", "toggle"} /\ Len(tokens) = 0)
            => /\ UNCHANGED <<tokens, currentIndex, isPlaying, wpm, mode, rafId,
                              lastTimestamp, accumulatedTime,
                              currentTokenDuration, wasPlayingBeforeHidden,
                              frames>>
               /\ events' = <<>>]_vars

\* toggle() has been called on an empty sequence.
C14_Witness ==
    /\ lastOp.op = "toggle"
    /\ Len(tokens) = 0

\* ------------------------------------------------------------------ C15
\* C15: load(tokens, start), in any state, leaves playback not running with no
\* frame callback pending, the position at clamp(start, 0, length - 1) (0 for
\* an empty sequence), accumulatedTime 0 and lastTimestamp unset, and its last
\* two notifications are token-changed for the new position (when there is a
\* token) and state-changed carrying the new state.
C15_LoadResets ==
    lastOp.op = "load"
        => /\ ~isPlaying
           /\ rafId = "null"
           /\ frames = 0
           /\ currentIndex = ClampIndex(lastOp.arg, Len(tokens))
           /\ accumulatedTime = 0
           /\ lastTimestamp = NoTimestamp
           /\ events # <<>>
           /\ events[Len(events)] = Event("state", Self)
           /\ Len(tokens) > 0
                 => /\ Len(events) > 1
                    /\ events[Len(events) - 1] = Event("tick", Self)

\* ------------------------------------------------------------------ C16
\* C16: after destroy() the controller listens to none of the document events
\* it subscribed to in the constructor, and a visibilitychange, freeze or
\* resume event delivered after destroy() runs no handler: it changes no field
\* of the controller and invokes no callback.
C16_TeardownUnsubscribes ==
    [][/\ lastOp'.op = "destroy" => listeners' = {}
       /\ ("visibilitychange" \notin listeners
             /\ lastOp'.op \in {"hidden", "visible", "freeze", "resume"})
            => /\ UNCHANGED <<tokens, currentIndex, isPlaying, wpm, mode, rafId,
                              lastTimestamp, accumulatedTime,
                              currentTokenDuration, wasPlayingBeforeHidden,
                              frames>>
               /\ events' = <<>>]_vars

\* ------------------------------------------------------------------ C17
\* C17: restoring a snapshot (position, rate, mode) taken with getState, by
\* load(tokens, position), setWPM(rate), setMode(mode) on the token sequence
\* it was taken on, leaves the controller paused with the snapshot's position,
\* rate and mode, whatever state the controller was in.
C17_SnapshotRoundTrip ==
    lastOp.op = "openReader"
        => /\ ~isPlaying
           /\ tokens = output.tokens
           /\ currentIndex = output.progress.currentIndex
           /\ wpm = output.progress.wpm
           /\ mode = output.progress.mode

\* A snapshot with a position past the start, a changed rate and the skim
\* mode has been restored on a controller that was playing.
C17_Witness ==
    /\ lastOp.op = "openReader"
    /\ lastOp.wasPlaying
    /\ currentIndex > 0
    /\ wpm # DEFAULT_WPM
    /\ mode = "skim"

\* ------------------------------------------------------------------ C18
\* C18: for every word tokenized, the pivot index findORPInWord returns is an
\* index of the word, 0 <= orpIndex < length of the word, also for a word
\* without any letter or digit.
C18_FixationInRange ==
    output # <<>> => (0 <= output[1] /\ output[1] < Len(input))

\* ------------------------------------------------------------------ C19
\* C19, as stated: for a fixed positive base duration and rates r1 < r2 within
\* MIN_WPM..MAX_WPM, the duration at r1 is strictly longer than at r2.
C19_StrictlyMonotonic ==
    output # <<>> => output[1] > output[2]

\* C19, amended: the duration at the lower rate r1 is never shorter than at
\* r2, and it is strictly longer whenever the unrounded durations
\* base * 200 / r1 and base * 200 / r2 differ by at least 1.
C19_Monotonic ==
    output # <<>>
        => /\ output[1] >= output[2]
           /\ input.base * BASE_WPM * (input.r2 - input.r1) >= input.r1 * input.r2
                 => output[1] > output[2]

\* The reference duration 300 has been scaled to the same duration at two
\* different rates.
C19_Witness ==
    /\ output # <<>>
    /\ input.base = 300
    /\ input.r1 < input.r2
    /\ output[1] = output[2]

\* ------------------------------------------------------------------ C20
\* C20: for every combination of token flags and for both modes, the base
\* duration calculateBaseDuration returns is an integer, at least 1.
C20_BaseDurationPositive ==
    output # <<>> => (output[1] \in Nat /\ output[1] >= 1)

\* The base duration of a token with every flag set, in skim mode, has been
\* calculated.
C20_Witness ==
    /\ output # <<>>
    /\ input.mode = "skim"
    /\ input.flags.isLongWord /\ input.flags.isAbbreviation
    /\ input.flags.isNumeric /\ input.flags.punctuation = "terminal"
    /\ input.flags.isParagraphEnd /\ input.flags.isParagraphStart

\* ------------------------------------------------------------------ C21
\* The words of a text, read off the text itself: a word starts at every
\* character that is not whitespace and follows whitespace or nothing, and
\* runs to the last character before the next whitespace.
WordStarts(text) ==
    {i \in DOMAIN text :
        ~IsWhitespace(text[i]) /\ (i = 1 \/ IsWhitespace(text[i - 1]))}
WordCount(text) == Cardinality(WordStarts(text))
WordStart(text, n) ==
    CHOOSE i \in WordStarts(text) :
        Cardinality({j \in WordStarts(text) : j < i}) = n - 1
WordEnd(text, n) ==
    CHOOSE j \in WordStart(text, n)..Len(text) :
        /\ \A k \in WordStart(text, n)..j : ~IsWhitespace(text[k])
        /\ j = Len(text) \/ IsWhitespace(text[j + 1])
\* The line endings between two words: a CR, a LF, or a CR LF pair.
LineEndings(text, from, to) ==
    Cardinality({k \in from..to :
                    \/ text[k] = "\r"
                    \/ text[k] = "\n" /\ ~(k > from /\ text[k - 1] = "\r")})
\* A word starts a paragraph when it is the first of the text or a blank line
\* (two line endings with whitespace only between them) precedes it.
StartsParagraph(text, n) ==
    \/ n = 1
    \/ LineEndings(text, WordEnd(text, n - 1) + 1, WordStart(text, n) - 1) >= 2
EndsParagraph(text, n) == n = WordCount(text) \/ StartsParagraph(text, n + 1)

\* C21: tokenize returns one token for every word of the text, in the order
\* of the text; of every paragraph exactly the first word's token is flagged
\* isParagraphStart and exactly the last word's token isParagraphEnd, so that
\* as many tokens are flagged isParagraphStart as isParagraphEnd.
C21_ParagraphFlags ==
    output # <<>> =>
        LET toks == output[1]
        IN /\ Len(toks) = WordCount(input)
           /\ \A n \in DOMAIN toks :
                 /\ toks[n].word = SubSeq(input, WordStart(input, n), WordEnd(input, n))
                 /\ toks[n].flags.isParagraphStart = StartsParagraph(input, n)
                 /\ toks[n].flags.isParagraphEnd = EndsParagraph(input, n)
           /\ Cardinality({n \in DOMAIN toks : toks[n].flags.isParagraphStart})
                 = Cardinality({n \in DOMAIN toks : toks[n].flags.isParagraphEnd})

\* A paragraph of two words and, after a blank line that a CR ends, a
\* paragraph of one.
C21_Witness ==
    /\ output # <<>>
    /\ \E i \in DOMAIN input : input[i] = "\r"
    /\ Len(output[1]) = 3
    /\ output[1][1].flags.isParagraphStart /\ ~output[1][1].flags.isParagraphEnd
    /\ ~output[1][2].flags.isParagraphStart /\ output[1][2].flags.isParagraphEnd
    /\ output[1][3].flags.isParagraphStart /\ output[1][3].flags.isParagraphEnd

\* ------------------------------------------------------------------ C22
\* C22: tokenize returns a sequence for every text; every token's word is a
\* non-empty run of characters none of which is whitespace; the empty text
\* and a text of whitespace only give the empty sequence.
C22_TotalWithoutEmptyTokens ==
    /\ output = <<>> => \A timingMode \in Modes : tokenize(input, timingMode) # {}
    /\ output # <<>> =>
          /\ \A n \in DOMAIN output[1] :
                /\ output[1][n].word # <<>>
                /\ \A k \in DOMAIN output[1][n].word :
                      ~IsWhitespace(output[1][n].word[k])
          /\ (\A i \in DOMAIN input : IsWhitespace(input[i])) => output[1] = <<>>

\* A text of blank lines only has been tokenized.
C22_Witness ==
    /\ output = << <<>> >>
    /\ Len(input) >= 3
    /\ \A i \in DOMAIN input : input[i] \in {"\n", "\r"}

\* ------------------------------------------------------------------ C23
\* C23: a single frame advances through as many tokens as the accumulated
\* time covers: after a frame callback that leaves playback running,
\* accumulatedTime is less than the duration of the current token, however
\* long the time since the previous frame was.
C23_TickCatchesUp ==
    (lastOp.op = "tick" /\ isPlaying) => accumulatedTime < currentTokenDuration

\* ------------------------------------------------------------------ C24
\* C24: the first frame after any play() (also play after pause, and the
\* play() that seek issues while playing) finds accumulatedTime reset to 0
\* and only sets the timestamp baseline: whatever its timestamp, it adds
\* nothing to accumulatedTime and, for a token of positive duration, does not
\* move the position.  The time a token was shown before a pause is
\* discarded: every call that leaves playback started leaves accumulatedTime 0
\* and lastTimestamp unset.
C24_FirstFrameSetsBaseline ==
    [][/\ (lastOp'.op = "tick" /\ isPlaying /\ lastTimestamp = NoTimestamp)
            => /\ accumulatedTime = 0
               /\ currentTokenDuration > 0
                     => /\ isPlaying'
                        /\ currentIndex' = currentIndex
                        /\ accumulatedTime' = 0
                        /\ lastTimestamp' = <<lastOp'.arg>>
       /\ (lastOp'.op \in {"play", "toggle", "seek"} /\ isPlaying')
            => /\ accumulatedTime' = 0
               /\ lastTimestamp' = NoTimestamp]_vars

\* A frame with a positive timestamp has set the baseline of a restarted
\* playback without adding time.
C24_Witness ==
    /\ lastOp.op = "tick"
    /\ lastOp.arg > 0
    /\ isPlaying
    /\ currentTokenDuration > 0
    /\ lastTimestamp = <<lastOp.arg>>
    /\ accumulatedTime = 0
    /\ currentIndex > 0

\* ------------------------------------------------------------------ C25
\* C25: in every reachable state in which playback is not running,
\* lastTimestamp is unset, so that the first frame after the next play() has
\* no earlier timestamp to measure a delta from.
C25_NoTimestampWhilePaused ==
    ~isPlaying => lastTimestamp = NoTimestamp

\* Playback has been paused in the middle of a token, after frames had set
\* the timestamp and accumulated time.
C25_Witness ==
    /\ lastOp.op = "pause"
    /\ lastOp.wasPlaying
    /\ ~isPlaying
    /\ accumulatedTime > 0

\* ------------------------------------------------------------------ C26
\* C26: whenever playback is running, currentTokenDuration, the target that
\* accumulatedTime is compared against, is the duration of the token at the
\* current position scaled at the current rate, round(base * 200 / wpm).
C26_TargetIsScaledDuration ==
    isPlaying
        => /\ currentIndex \in 0..(Len(tokens) - 1)
           /\ currentTokenDuration =
                 getDisplayDuration(tokens[currentIndex + 1], wpm)

\* The rate has been changed during playback to the base rate, at which the
\* current token's duration (2) differs from its duration at the default
\* rate (1).
C26_Witness ==
    /\ lastOp.op = "setWPM"
    /\ lastOp.wasPlaying
    /\ isPlaying
    /\ wpm = BASE_WPM
    /\ currentTokenDuration = 2

\* ------------------------------------------------------------------ C27
\* C27: on a non-empty sequence, once playback is running and frames keep
\* arriving with strictly increasing timestamps and nothing else happens,
\* the completion notification is eventually emitted and playback is then
\* paused at the last index.
C27_EventuallyCompletes ==
    isPlaying ~> (Completed /\ ~isPlaying /\ currentIndex = Len(tokens) - 1)

\* A run of the longest sequence, on irregularly spaced frames, has completed.
C27_Witness ==
    /\ Completed
    /\ ~isPlaying
    /\ pace = 0
    /\ Len(tokens) = MaxLen
    /\ currentIndex = Len(tokens) - 1

\* ------------------------------------------------------------------ C28
\* C28: a frame callback requests a following frame only if playback is
\* still running once its processing and notifications are done: when an
\* onTick or onProgress callback calls pause() during the tick, no frame
\* callback is pending after the tick has returned.
C28_NoFrameAfterReentrantPause ==
    (lastOp.op = "tick" /\ ~isPlaying) => (frames = 0 /\ rafId # "pending")

\* ------------------------------------------------------------------ C29
\* C29: stop(), called in any state, leaves playback not running with no
\* frame callback pending, the position 0, accumulatedTime 0 and lastTimestamp
\* unset, and leaves the token sequence, the rate and the mode unchanged.
C29_StopResets ==
    [][lastOp'.op = "stop"
          => /\ ~isPlaying'
             /\ rafId' = "null"
             /\ frames' = 0
             /\ currentIndex' = 0
             /\ accumulatedTime' = 0
             /\ lastTimestamp' = NoTimestamp
             /\ UNCHANGED <<tokens, wpm, mode>>]_vars

\* ------------------------------------------------------------------ C30
\* C30: seekPercent(p) on a paused controller with L >= 1 tokens leaves the
\* position at min(floor(p * L / 100), L - 1), and at 0 when that is negative,
\* for every integer p.
C30_SeekPercentFloors ==
    (lastOp.op = "seekPercent" /\ ~lastOp.wasPlaying /\ Len(tokens) >= 1)
        => currentIndex =
              Max(0, Min((lastOp.arg * Len(tokens)) \div 100, Len(tokens) - 1))

\* ------------------------------------------------------------------ C31
\* C31: every onProgress notification carries the percentage
\* position * 100 / length of the position at the time it is emitted, and 0
\* when there are no tokens; the percentage is at least 0 and below 100.
C31_ProgressPercent ==
    \A e \in EventsOfType("progress") :
        /\ e.percent.den > 0
        /\ e.length = 0 => e.percent.num = 0
        /\ e.length > 0 =>
              e.percent.num * e.length = e.currentIndex * 100 * e.percent.den
        /\ 0 <= e.percent.num
        /\ e.percent.num < 100 * e.percent.den

\* A frame has moved the position to the last token of several and has
\* reported the progress there.
C31_Witness ==
    /\ lastOp.op = "tick"
    /\ Len(tokens) >= 2
    /\ \E e \in EventsOfType("progress") : e.currentIndex = Len(tokens) - 1

\* ------------------------------------------------------------------ C32
\* The trailing punctuation run of a word: its longest suffix of punctuation
\* characters.
TrailingRun(word) ==
    LET IsPunct(c) == c \in TerminalPunct \cup MajorPunct \cup MinorPunct
        from == CHOOSE i \in 1..(Len(word) + 1) :
                    /\ \A k \in i..Len(word) : IsPunct(word[k])
                    /\ i > 1 => ~IsPunct(word[i - 1])
    IN {word[k] : k \in from..Len(word)}

\* C32: the punctuation class of a word is the strongest class of a character
\* of its trailing punctuation run: terminal before major before minor, and
\* none for an empty run.
C32_StrongestOfTrailingRun ==
    output # <<>> =>
        output[1] =
            CASE TrailingRun(input) \cap TerminalPunct # {} -> "terminal"
              [] TrailingRun(input) \cap MajorPunct # {} -> "major"
              [] TrailingRun(input) \cap MinorPunct # {} -> "minor"
              [] OTHER -> "none"

\* ------------------------------------------------------------------ C33
\* A multiplier applies to the flags.
MultiplierApplies(flags) ==
    \/ flags.isLongWord \/ flags.isAbbreviation \/ flags.isNumeric
    \/ flags.punctuation # "none"
    \/ flags.isParagraphEnd \/ flags.isParagraphStart

\* C33: for every combination of flags the base duration in reading mode is
\* at least that in skim mode, greater when a multiplier applies, and both
\* are BASE_MS when none does.
C33_ReadingSlowerThanSkim ==
    (output # <<>> /\ input.mode = "reading") =>
        \A skim \in calculateBaseDuration(input.flags, "skim") :
            /\ output[1] >= skim
            /\ MultiplierApplies(input.flags) => output[1] > skim
            /\ ~MultiplierApplies(input.flags) =>
                  output[1] = BASE_MS /\ skim = BASE_MS

\* The base duration of a long word, which skim mode does not lengthen, has
\* been computed in reading mode.
C33_Witness ==
    /\ output # <<>>
    /\ input.mode = "reading"
    /\ input.flags.isLongWord
    /\ ~input.flags.isAbbreviation /\ ~input.flags.isNumeric
    /\ input.flags.punctuation = "none"
    /\ ~input.flags.isParagraphEnd /\ ~input.flags.isParagraphStart
    /\ output[1] > BASE_MS

\* ------------------------------------------------------------------ C34
\* The pivot's place among the alphanumeric characters of a word that has n of
\* them.
PivotStep(n) ==
    IF n <= 3 THEN 0
    ELSE IF n <= 5 THEN 1
    ELSE IF n <= 9 THEN 2
    ELSE IF n <= 13 THEN 3
    ELSE 4

\* C34: for a word with at least one alphanumeric character, the character
\* at the pivot index is alphanumeric and as many alphanumeric characters
\* precede it as the count of the word's alphanumeric characters asks for,
\* wherever the word's punctuation stands.
C34_PivotAmongAlphanumerics ==
    (output # <<>> /\ cleanWord(input) # <<>>) =>
        /\ output[1] + 1 \in DOMAIN input
        /\ IsAlphanumeric(input[output[1] + 1])
        /\ Cardinality({k \in 1..output[1] : IsAlphanumeric(input[k])})
              = PivotStep(Len(cleanWord(input)))

\* The pivot of a word with leading and interior punctuation and ten
\* alphanumeric characters or more has been found behind the interior mark.
C34_Witness ==
    /\ output # <<>>
    /\ input[1] = "."
    /\ Len(cleanWord(input)) >= 10
    /\ \E k \in 2..output[1] : input[k] = "."
    /\ IsAlphanumeric(input[output[1] + 1])

\* ------------------------------------------------------------------ C35
\* C35: at most one frame callback is pending with the host, and none while
\* playback is not running.
C35_AtMostOneFramePending ==
    /\ frames <= 1
    /\ ~isPlaying => frames = 0

\* ------------------------------------------------------------------ C36
\* C36: on a non-empty sequence, after every call the position the last
\* onTick notification carried is the current position.
C36_ShownTokenIsCurrent ==
    Len(tokens) > 0 => shown.index = <<currentIndex>>

\* ------------------------------------------------------------------ C37
\* C37: once onStateChange has been called, after every call the playing
\* flag, rate and mode it last carried are the controller's.
C37_ShownStateIsCurrent ==
    shown.state # <<>> =>
        shown.state = <<[isPlaying |-> isPlaying, wpm |-> wpm, mode |-> mode]>>

\* A frame has completed the playback of a sequence whose rate and mode were
\* changed, and the application has been told that it stopped.
C37_Witness ==
    /\ Completed
    /\ wpm # DEFAULT_WPM
    /\ mode = "skim"
    /\ shown.state # <<>>
    /\ ~shown.state[1].isPlaying

\* ------------------------------------------------------------------ C38
\* C38: the completion notification is emitted at most once per run.  A call
\* emits it at most once, only a frame callback that finds playback running
\* emits it and leaves playback paused, and playback becomes running only in
\* play, toggle, seek and seekPercent: so between two completion notifications
\* there is a call of play(), directly or through toggle or seek.
C38_CompletesOncePerRun ==
    [][/\ Cardinality({i \in DOMAIN events' : events'[i].type = "complete"}) <= 1
       /\ (\E i \in DOMAIN events' : events'[i].type = "complete")
             => (lastOp'.op = "tick" /\ isPlaying /\ ~isPlaying')
       /\ (~isPlaying /\ isPlaying')
             => lastOp'.op \in {"play", "toggle", "seek", "seekPercent"}]_vars

\* A frame has completed the run while another frame callback was pending.
C38_Witness == Completed /\ frames > 0

C40_TargetDurationPositive ==
    isPlaying => currentTokenDuration >= 1

\* A token without flags is being played at a rate that was set, while it
\* played, far above the upper limit.
C40_Witness ==
    /\ isPlaying
    /\ lastOp.op = "setWPM"
    /\ lastOp.arg > MAX_WPM
    /\ tokens = <<BASE_MS>>
    /\ currentTokenDuration = 30

====
